---- MODULE Spec2Model ----
(***************************************************************************)
(* A model of the granges interval library: the Cut ordering (cut.go), the *)
(* Range operations built on it (ranges.go) and the constructors.          *)
(*                                                                         *)
(* Cuts and ranges are immutable values, so the functions of the library   *)
(* are operators.  The state machine is a client that repeatedly calls one *)
(* function of the public API, on endpoints or on the ranges returned by   *)
(* its two most recent calls: out is the range returned by the last call   *)
(* and prev the range returned by the call before it.  Every range such a  *)
(* client can ever obtain is a value of out in some reachable state.       *)
(***************************************************************************)
EXTENDS Integers, FiniteSets, Sequences

VARIABLES out, prev, last, err

vars == <<out, prev, last, err>>

\* Endpoints are the integers 0..MaxVal (the type parameter C is int here;
\* 0 is its zero value).
MaxVal == 2

Values == 0..MaxVal

Zero == 0

----------------------------------------------------------------------------
(* bound.go *)

Unbounded == -1

OPEN == 0

CLOSED == 1

BoundTypes == {Unbounded, OPEN, CLOSED}

----------------------------------------------------------------------------
(* errors.go, and the errors built with fmt.Errorf in ranges.go *)

ErrNil == "nil"

ErrRangeSideUnbounded == "range unbounded on this side"

ErrUnboundedCut == "unbounded cut"

ErrWrongBoundType == "unknown bound type"

ErrInvalidRange == "invalid range"

ErrDisconnected == "intersection is undefined for disconnected ranges"

ErrNonemptyIntersection == "ranges have a nonempty intersection"

----------------------------------------------------------------------------
(* cut.go *)

BelowAll == 0

AboveAll == 1

BelowValue == 2

AboveValue == 3

NewBelowAll == [cutType |-> BelowAll, endpoint |-> Zero]

NewAboveAll == [cutType |-> AboveAll, endpoint |-> Zero]

NewBelowValue(value) == [cutType |-> BelowValue, endpoint |-> value]

NewAboveValue(value) == [cutType |-> AboveValue, endpoint |-> value]

\* IsLessThan with the closed lower bound treated as strict.
IsLessThanStrict(c, value) ==
    CASE c.cutType = BelowAll -> TRUE
      [] c.cutType = AboveAll -> FALSE
      [] c.cutType = BelowValue -> c.endpoint < value
      [] c.cutType = AboveValue -> c.endpoint < value
      [] OTHER -> FALSE

IsLessThan(c, value) ==
    CASE c.cutType = BelowAll -> TRUE
      [] c.cutType = AboveAll -> FALSE
      [] c.cutType = BelowValue -> c.endpoint <= value
      [] c.cutType = AboveValue -> c.endpoint < value
      [] OTHER -> FALSE

\* Compare without the tie-break on the cut type at equal endpoints.
CompareEndpointsOnly(c, other) ==
    IF c.cutType = BelowAll THEN (IF other.cutType = BelowAll THEN 0 ELSE -1)
    ELSE IF c.cutType = AboveAll THEN (IF other.cutType = AboveAll THEN 0 ELSE 1)
    ELSE IF other.cutType = BelowAll THEN 1
    ELSE IF other.cutType = AboveAll THEN -1
    ELSE IF c.endpoint < other.endpoint THEN -1
    ELSE IF c.endpoint > other.endpoint THEN 1
    ELSE 0

Compare(c, other) ==
    IF c.cutType = BelowAll THEN (IF other.cutType = BelowAll THEN 0 ELSE -1)
    ELSE IF c.cutType = AboveAll THEN (IF other.cutType = AboveAll THEN 0 ELSE 1)
    ELSE IF other.cutType = BelowAll THEN 1
    ELSE IF other.cutType = AboveAll THEN -1
    ELSE IF c.endpoint < other.endpoint THEN -1
    ELSE IF c.endpoint > other.endpoint THEN 1
    ELSE IF c.cutType = BelowValue /\ other.cutType = AboveValue THEN -1
    ELSE IF c.cutType = AboveValue /\ other.cutType = BelowValue THEN 1
    ELSE 0

CutEqual(c, other) == Compare(c, other) = 0

\* A function returning (value, error) returns a record [value, err].
Val(value, e) == [value |-> value, err |-> e]

Endpoint(c) ==
    IF c.cutType = BelowAll \/ c.cutType = AboveAll
    THEN Val(Zero, ErrRangeSideUnbounded)
    ELSE Val(c.endpoint, ErrNil)

TypeAsLowerBound(c) ==
    CASE c.cutType = BelowValue -> Val(CLOSED, ErrNil)
      [] c.cutType = AboveValue -> Val(OPEN, ErrNil)
      [] OTHER -> Val(Unbounded, ErrUnboundedCut)

\* TypeAsUpperBound with the answers of TypeAsLowerBound.
TypeAsUpperBoundAsLower(c) ==
    CASE c.cutType = BelowValue -> Val(CLOSED, ErrNil)
      [] c.cutType = AboveValue -> Val(OPEN, ErrNil)
      [] OTHER -> Val(Unbounded, ErrUnboundedCut)

TypeAsUpperBound(c) ==
    CASE c.cutType = BelowValue -> Val(OPEN, ErrNil)
      [] c.cutType = AboveValue -> Val(CLOSED, ErrNil)
      [] OTHER -> Val(Unbounded, ErrUnboundedCut)

\* A string is the sequence of its runes (Unicode code points).
RuneLeftParen == 40
RuneRightParen == 41
RunePlus == 43
RuneMinus == 45
RuneDot == 46
RuneDigitZero == 48
RuneLeftBracket == 91
RuneRightBracket == 93
\* The infinity sign, U+221E.
RuneInfinity == 8734

\* The decimal digits of a natural number.
RECURSIVE FormatDigits(_)
FormatDigits(n) ==
    IF n < 10 THEN <<RuneDigitZero + n>>
    ELSE FormatDigits(n \div 10) \o <<RuneDigitZero + (n % 10)>>

\* The %v verb on an integer endpoint.
FormatValue(value) ==
    IF value < 0 THEN <<RuneMinus>> \o FormatDigits(0 - value)
    ELSE FormatDigits(value)

DescribeAsLowerBound(c) ==
    CASE c.cutType = BelowAll -> <<RuneLeftParen, RuneMinus, RuneInfinity>>
      [] c.cutType = BelowValue -> <<RuneLeftBracket>> \o FormatValue(c.endpoint)
      [] c.cutType = AboveValue -> <<RuneLeftParen>> \o FormatValue(c.endpoint)
      [] OTHER -> <<>>

\* DescribeAsUpperBound with the closing brackets exchanged.
DescribeAsUpperBoundSwapped(c) ==
    CASE c.cutType = AboveAll -> <<RunePlus, RuneInfinity, RuneRightParen>>
      [] c.cutType = BelowValue -> FormatValue(c.endpoint) \o <<RuneRightBracket>>
      [] c.cutType = AboveValue -> FormatValue(c.endpoint) \o <<RuneRightParen>>
      [] OTHER -> <<>>

DescribeAsUpperBound(c) ==
    CASE c.cutType = AboveAll -> <<RunePlus, RuneInfinity, RuneRightParen>>
      [] c.cutType = BelowValue -> FormatValue(c.endpoint) \o <<RuneRightParen>>
      [] c.cutType = AboveValue -> FormatValue(c.endpoint) \o <<RuneRightBracket>>
      [] OTHER -> <<>>

----------------------------------------------------------------------------
(* ranges.go *)

\* A function returning (Range, error) returns a record [range, err].
Ret(range, e) == [range |-> range, err |-> e]

Invalid == [lowerBound |-> NewBelowAll, upperBound |-> NewBelowAll, invalid |-> TRUE]

MkRange(lowerBound, upperBound) ==
    [lowerBound |-> lowerBound, upperBound |-> upperBound, invalid |-> FALSE]

\* create without the check that the upper cut is not BelowAll.
createNoUpperCheck(lowerBound, upperBound) ==
    IF \/ Compare(lowerBound, upperBound) > 0
       \/ lowerBound.cutType = AboveAll
    THEN Ret(Invalid, ErrInvalidRange)
    ELSE Ret(MkRange(lowerBound, upperBound), ErrNil)

create(lowerBound, upperBound) ==
    IF \/ Compare(lowerBound, upperBound) > 0
       \/ lowerBound.cutType = AboveAll
       \/ upperBound.cutType = BelowAll
    THEN Ret(Invalid, ErrInvalidRange)
    ELSE Ret(MkRange(lowerBound, upperBound), ErrNil)

IsInvalid(x) == x.invalid

HasLowerBound(x) == x.lowerBound.cutType # BelowAll

HasUpperBound(x) == x.upperBound.cutType # AboveAll

LowerEndpointE(x) == Endpoint(x.lowerBound)

LowerEndpoint(x) == LowerEndpointE(x).value

LowerBoundTypeE(x) == TypeAsLowerBound(x.lowerBound)

LowerBoundType(x) == LowerBoundTypeE(x).value

UpperEndpointE(x) == Endpoint(x.upperBound)

UpperEndpoint(x) == UpperEndpointE(x).value

UpperBoundTypeE(x) == TypeAsUpperBound(x.upperBound)

UpperBoundType(x) == UpperBoundTypeE(x).value

\* IsEmpty that accepts any range whose lower cut is not above its upper cut.
IsEmptyNotAbove(x) == Compare(x.lowerBound, x.upperBound) <= 0

IsEmpty(x) == Compare(x.lowerBound, x.upperBound) = 0

Contains(x, value) ==
    IsLessThan(x.lowerBound, value) /\ ~IsLessThan(x.upperBound, value)

\* Encloses that requires a strictly smaller lower cut.
EnclosesStrictLower(x, other) ==
    /\ Compare(x.lowerBound, other.lowerBound) < 0
    /\ Compare(x.upperBound, other.upperBound) >= 0

\* Encloses that tests the lower cuts only.
EnclosesLowerOnly(x, other) ==
    Compare(x.lowerBound, other.lowerBound) <= 0

Encloses(x, other) ==
    /\ Compare(x.lowerBound, other.lowerBound) <= 0
    /\ Compare(x.upperBound, other.upperBound) >= 0

\* IsConnected whose second test is strict.
IsConnectedStrictSecond(x, other) ==
    /\ Compare(x.lowerBound, other.upperBound) <= 0
    /\ Compare(other.lowerBound, x.upperBound) < 0

IsConnected(x, other) ==
    /\ Compare(x.lowerBound, other.upperBound) <= 0
    /\ Compare(other.lowerBound, x.upperBound) <= 0

\* Equal that compares the lower cuts only.
EqualLowerOnly(x, other) ==
    Compare(x.lowerBound, other.lowerBound) = 0

Equal(x, other) ==
    /\ Compare(x.lowerBound, other.lowerBound) = 0
    /\ Compare(x.upperBound, other.upperBound) = 0


\* IntersectionE that also rejects ranges meeting in a single cut.
IntersectionERejectAdjacent(x, connectedRange) ==
    LET lowerCmp == Compare(x.lowerBound, connectedRange.lowerBound)
        upperCmp == Compare(x.upperBound, connectedRange.upperBound)
    IN  IF lowerCmp >= 0 /\ upperCmp <= 0 THEN Ret(x, ErrNil)
        ELSE IF lowerCmp <= 0 /\ upperCmp >= 0 THEN Ret(connectedRange, ErrNil)
        ELSE LET newLower == IF lowerCmp >= 0 THEN x.lowerBound
                             ELSE connectedRange.lowerBound
                 newUpper == IF upperCmp <= 0 THEN x.upperBound
                             ELSE connectedRange.upperBound
             IN  IF Compare(newLower, newUpper) >= 0
                 THEN Ret(Invalid, ErrDisconnected)
                 ELSE create(newLower, newUpper)

\* IntersectionE that keeps the greater of the two upper cuts.
IntersectionEWrongUpper(x, connectedRange) ==
    LET lowerCmp == Compare(x.lowerBound, connectedRange.lowerBound)
        upperCmp == Compare(x.upperBound, connectedRange.upperBound)
    IN  IF lowerCmp >= 0 /\ upperCmp <= 0 THEN Ret(x, ErrNil)
        ELSE IF lowerCmp <= 0 /\ upperCmp >= 0 THEN Ret(connectedRange, ErrNil)
        ELSE LET newLower == IF lowerCmp >= 0 THEN x.lowerBound
                             ELSE connectedRange.lowerBound
                 newUpper == IF upperCmp >= 0 THEN x.upperBound
                             ELSE connectedRange.upperBound
             IN  IF Compare(newLower, newUpper) > 0
                 THEN Ret(Invalid, ErrDisconnected)
                 ELSE create(newLower, newUpper)

\* IntersectionE that returns the receiver whenever its lower cut is not the
\* smaller one, without looking at the upper cuts.
IntersectionENoUpperTest(x, connectedRange) ==
    LET lowerCmp == Compare(x.lowerBound, connectedRange.lowerBound)
        upperCmp == Compare(x.upperBound, connectedRange.upperBound)
    IN  IF lowerCmp >= 0 THEN Ret(x, ErrNil)
        ELSE IF lowerCmp <= 0 /\ upperCmp >= 0 THEN Ret(connectedRange, ErrNil)
        ELSE LET newLower == IF lowerCmp >= 0 THEN x.lowerBound
                             ELSE connectedRange.lowerBound
                 newUpper == IF upperCmp <= 0 THEN x.upperBound
                             ELSE connectedRange.upperBound
             IN  IF Compare(newLower, newUpper) > 0
                 THEN Ret(Invalid, ErrDisconnected)
                 ELSE create(newLower, newUpper)

\* IntersectionE whose two short cuts return the enclosing range.
IntersectionEReturnsWider(x, connectedRange) ==
    LET lowerCmp == Compare(x.lowerBound, connectedRange.lowerBound)
        upperCmp == Compare(x.upperBound, connectedRange.upperBound)
    IN  IF lowerCmp >= 0 /\ upperCmp <= 0 THEN Ret(connectedRange, ErrNil)
        ELSE IF lowerCmp <= 0 /\ upperCmp >= 0 THEN Ret(x, ErrNil)
        ELSE LET newLower == IF lowerCmp >= 0 THEN x.lowerBound
                             ELSE connectedRange.lowerBound
                 newUpper == IF upperCmp <= 0 THEN x.upperBound
                             ELSE connectedRange.upperBound
             IN  IF Compare(newLower, newUpper) > 0
                 THEN Ret(Invalid, ErrDisconnected)
                 ELSE create(newLower, newUpper)

IntersectionE(x, connectedRange) ==
    LET lowerCmp == Compare(x.lowerBound, connectedRange.lowerBound)
        upperCmp == Compare(x.upperBound, connectedRange.upperBound)
    IN  IF lowerCmp >= 0 /\ upperCmp <= 0 THEN Ret(x, ErrNil)
        ELSE IF lowerCmp <= 0 /\ upperCmp >= 0 THEN Ret(connectedRange, ErrNil)
        ELSE LET newLower == IF lowerCmp >= 0 THEN x.lowerBound
                             ELSE connectedRange.lowerBound
                 newUpper == IF upperCmp <= 0 THEN x.upperBound
                             ELSE connectedRange.upperBound
             IN  IF Compare(newLower, newUpper) > 0
                 THEN Ret(Invalid, ErrDisconnected)
                 ELSE create(newLower, newUpper)

\* Intersection returning its receiver when IntersectionE fails.
IntersectionKeepsReceiver(x, connectedRange) ==
    IF IntersectionE(x, connectedRange).err = ErrNil
    THEN IntersectionE(x, connectedRange).range
    ELSE x

Intersection(x, connectedRange) == IntersectionE(x, connectedRange).range

\* GapE that takes the receiver as the first range when its lower cut is the
\* greater one.
GapEWrongOrder(x, other) ==
    IF /\ Compare(x.lowerBound, other.upperBound) < 0
       /\ Compare(other.lowerBound, x.upperBound) < 0
    THEN Ret(Invalid, ErrNonemptyIntersection)
    ELSE LET isThisFirst == Compare(x.lowerBound, other.lowerBound) > 0
             first == IF isThisFirst THEN x ELSE other
             second == IF isThisFirst THEN other ELSE x
         IN  create(first.upperBound, second.lowerBound)

GapE(x, other) ==
    IF /\ Compare(x.lowerBound, other.upperBound) < 0
       /\ Compare(other.lowerBound, x.upperBound) < 0
    THEN Ret(Invalid, ErrNonemptyIntersection)
    ELSE LET isThisFirst == Compare(x.lowerBound, other.lowerBound) < 0
             first == IF isThisFirst THEN x ELSE other
             second == IF isThisFirst THEN other ELSE x
         IN  create(first.upperBound, second.lowerBound)

Gap(x, other) == GapE(x, other).range

\* SpanE that keeps the receiver's upper cut when the other one is greater.
SpanEWrongUpper(x, other) ==
    LET lowerCmp == Compare(x.lowerBound, other.lowerBound)
        upperCmp == Compare(x.upperBound, other.upperBound)
    IN  IF lowerCmp <= 0 /\ upperCmp >= 0 THEN Ret(x, ErrNil)
        ELSE IF lowerCmp >= 0 /\ upperCmp <= 0 THEN Ret(other, ErrNil)
        ELSE LET newLower == IF lowerCmp <= 0 THEN x.lowerBound
                             ELSE other.lowerBound
                 newUpper == IF upperCmp <= 0 THEN x.upperBound
                             ELSE other.upperBound
             IN  create(newLower, newUpper)

SpanE(x, other) ==
    LET lowerCmp == Compare(x.lowerBound, other.lowerBound)
        upperCmp == Compare(x.upperBound, other.upperBound)
    IN  IF lowerCmp <= 0 /\ upperCmp >= 0 THEN Ret(x, ErrNil)
        ELSE IF lowerCmp >= 0 /\ upperCmp <= 0 THEN Ret(other, ErrNil)
        ELSE LET newLower == IF lowerCmp <= 0 THEN x.lowerBound
                             ELSE other.lowerBound
                 newUpper == IF upperCmp >= 0 THEN x.upperBound
                             ELSE other.upperBound
             IN  create(newLower, newUpper)

Span(x, other) == SpanE(x, other).range

String(x) ==
    LET lowerStr == DescribeAsLowerBound(x.lowerBound)
        upperStr == DescribeAsUpperBound(x.upperBound)
    IN  lowerStr \o <<RuneDot, RuneDot>> \o upperStr

----------------------------------------------------------------------------
(* the constructors *)

\* OpenE built on the cuts of a closed-open range.
OpenEClosedLower(lower, upper) ==
    create(NewBelowValue(lower), NewBelowValue(upper))

OpenE(lower, upper) == create(NewAboveValue(lower), NewBelowValue(upper))

Open(lower, upper) == OpenE(lower, upper).range

ClosedE(lower, upper) == create(NewBelowValue(lower), NewAboveValue(upper))

Closed(lower, upper) == ClosedE(lower, upper).range

ClosedOpenE(lower, upper) == create(NewBelowValue(lower), NewBelowValue(upper))

ClosedOpen(lower, upper) == ClosedOpenE(lower, upper).range

OpenClosedE(lower, upper) == create(NewAboveValue(lower), NewAboveValue(upper))

OpenClosed(lower, upper) == OpenClosedE(lower, upper).range

\* NewE choosing the upper cut as it chooses the lower one.
NewEUpperAsLower(lower, lowerType, upper, upperType) ==
    LET lowerBound == IF lowerType = OPEN THEN NewAboveValue(lower)
                      ELSE NewBelowValue(lower)
        upperBound == IF upperType = OPEN THEN NewAboveValue(upper)
                      ELSE NewBelowValue(upper)
    IN  create(lowerBound, upperBound)

NewE(lower, lowerType, upper, upperType) ==
    LET lowerBound == IF lowerType = OPEN THEN NewAboveValue(lower)
                      ELSE NewBelowValue(lower)
        upperBound == IF upperType = OPEN THEN NewBelowValue(upper)
                      ELSE NewAboveValue(upper)
    IN  create(lowerBound, upperBound)

New(lower, lowerType, upper, upperType) ==
    NewE(lower, lowerType, upper, upperType).range

LessThan(upper) == MkRange(NewBelowAll, NewBelowValue(upper))

AtMost(upper) == MkRange(NewBelowAll, NewAboveValue(upper))

GreaterThan(lower) == MkRange(NewAboveValue(lower), NewAboveAll)

AtLeast(lower) == MkRange(NewBelowValue(lower), NewAboveAll)

All == MkRange(NewBelowAll, NewAboveAll)

Singleton(value) == Closed(value, value)

UpTo(endpoint, boundType) ==
    CASE boundType = OPEN -> Ret(LessThan(endpoint), ErrNil)
      [] boundType = CLOSED -> Ret(AtMost(endpoint), ErrNil)
      [] OTHER -> Ret(Invalid, ErrWrongBoundType)

DownTo(endpoint, boundType) ==
    CASE boundType = OPEN -> Ret(GreaterThan(endpoint), ErrNil)
      [] boundType = CLOSED -> Ret(AtLeast(endpoint), ErrNil)
      [] OTHER -> Ret(Invalid, ErrWrongBoundType)

----------------------------------------------------------------------------
(* The client.  last records the call just made: its name, its range       *)
(* operands x (the receiver) and y, its endpoint arguments a and b and its *)
(* bound-type arguments lt and ut (arguments a call does not take are left *)
(* at Invalid, Zero and OPEN).  out and err are what the call returned.    *)

Call(op, x, y, a, b, lt, ut) ==
    [op |-> op, x |-> x, y |-> y, a |-> a, b |-> b, lt |-> lt, ut |-> ut]

\* The call returned ret.
Return(ret) ==
    /\ out' = ret.range
    /\ err' = ret.err
    /\ prev' = out

Init ==
    /\ out = Invalid
    /\ prev = Invalid
    /\ err = ErrNil
    /\ last = Call("Invalid", Invalid, Invalid, Zero, Zero, OPEN, OPEN)

CallInvalid ==
    /\ last' = Call("Invalid", Invalid, Invalid, Zero, Zero, OPEN, OPEN)
    /\ Return(Ret(Invalid, ErrNil))

CallOpenE ==
    \E a, b \in Values :
        /\ last' = Call("OpenE", Invalid, Invalid, a, b, OPEN, OPEN)
        /\ Return(OpenE(a, b))

CallClosedE ==
    \E a, b \in Values :
        /\ last' = Call("ClosedE", Invalid, Invalid, a, b, CLOSED, CLOSED)
        /\ Return(ClosedE(a, b))

CallClosedOpenE ==
    \E a, b \in Values :
        /\ last' = Call("ClosedOpenE", Invalid, Invalid, a, b, CLOSED, OPEN)
        /\ Return(ClosedOpenE(a, b))

CallOpenClosedE ==
    \E a, b \in Values :
        /\ last' = Call("OpenClosedE", Invalid, Invalid, a, b, OPEN, CLOSED)
        /\ Return(OpenClosedE(a, b))

CallNewE ==
    \E a, b \in Values, lt, ut \in BoundTypes :
        /\ last' = Call("NewE", Invalid, Invalid, a, b, lt, ut)
        /\ Return(NewE(a, lt, b, ut))

CallLessThan ==
    \E b \in Values :
        /\ last' = Call("LessThan", Invalid, Invalid, Zero, b, OPEN, OPEN)
        /\ Return(Ret(LessThan(b), ErrNil))

CallAtMost ==
    \E b \in Values :
        /\ last' = Call("AtMost", Invalid, Invalid, Zero, b, OPEN, CLOSED)
        /\ Return(Ret(AtMost(b), ErrNil))

CallGreaterThan ==
    \E a \in Values :
        /\ last' = Call("GreaterThan", Invalid, Invalid, a, Zero, OPEN, OPEN)
        /\ Return(Ret(GreaterThan(a), ErrNil))

CallAtLeast ==
    \E a \in Values :
        /\ last' = Call("AtLeast", Invalid, Invalid, a, Zero, CLOSED, OPEN)
        /\ Return(Ret(AtLeast(a), ErrNil))

CallAll ==
    /\ last' = Call("All", Invalid, Invalid, Zero, Zero, OPEN, OPEN)
    /\ Return(Ret(All, ErrNil))

CallSingleton ==
    \E a \in Values :
        /\ last' = Call("Singleton", Invalid, Invalid, a, a, CLOSED, CLOSED)
        /\ Return(Ret(Singleton(a), ErrNil))

CallUpTo ==
    \E b \in Values, ut \in BoundTypes :
        /\ last' = Call("UpTo", Invalid, Invalid, Zero, b, OPEN, ut)
        /\ Return(UpTo(b, ut))

CallDownTo ==
    \E a \in Values, lt \in BoundTypes :
        /\ last' = Call("DownTo", Invalid, Invalid, a, Zero, lt, OPEN)
        /\ Return(DownTo(a, lt))

\* The receiver and the argument of a binary operation are the ranges the
\* last two calls returned, in either order, or one of them twice.
Operands == {<<out, prev>>, <<prev, out>>, <<out, out>>, <<prev, prev>>}

CallIntersectionE ==
    \E xy \in Operands :
        /\ last' = Call("IntersectionE", xy[1], xy[2], Zero, Zero, OPEN, OPEN)
        /\ Return(IntersectionE(xy[1], xy[2]))

CallGapE ==
    \E xy \in Operands :
        /\ last' = Call("GapE", xy[1], xy[2], Zero, Zero, OPEN, OPEN)
        /\ Return(GapE(xy[1], xy[2]))

CallSpanE ==
    \E xy \in Operands :
        /\ last' = Call("SpanE", xy[1], xy[2], Zero, Zero, OPEN, OPEN)
        /\ Return(SpanE(xy[1], xy[2]))

Next ==
    \/ CallInvalid
    \/ CallOpenE
    \/ CallClosedE
    \/ CallClosedOpenE
    \/ CallOpenClosedE
    \/ CallNewE
    \/ CallLessThan
    \/ CallAtMost
    \/ CallGreaterThan
    \/ CallAtLeast
    \/ CallAll
    \/ CallSingleton
    \/ CallUpTo
    \/ CallDownTo
    \/ CallIntersectionE
    \/ CallGapE
    \/ CallSpanE

Spec == Init /\ [][Next]_vars

----------------------------------------------------------------------------
(* Vocabulary of the properties *)

\* The values handed to Contains: the endpoints and one value beyond each end.
ProbeValues == (0 - 1)..(MaxVal + 1)

AllCuts ==
    {NewBelowAll, NewAboveAll}
        \cup {NewBelowValue(v) : v \in Values}
        \cup {NewAboveValue(v) : v \in Values}

WellFormed(x) ==
    /\ Compare(x.lowerBound, x.upperBound) <= 0
    /\ x.lowerBound.cutType # AboveAll
    /\ x.upperBound.cutType # BelowAll

\* The valid ranges with endpoints in Values.
ValidRanges ==
    {x \in {MkRange(l, u) : l \in AllCuts, u \in AllCuts} : WellFormed(x)}

ValidOperands == ~last.x.invalid /\ ~last.y.invalid

ValueBearing(c) == c.cutType \in {BelowValue, AboveValue}

SameCut(a, b) ==
    /\ a.cutType = b.cutType
    /\ ValueBearing(a) => a.endpoint = b.endpoint

\* The cuts of the ranges in the state.
StateCuts ==
    {out.lowerBound, out.upperBound, prev.lowerBound, prev.upperBound,
     last.x.lowerBound, last.x.upperBound, last.y.lowerBound, last.y.upperBound}

----------------------------------------------------------------------------
(* C1..C10 *)

\* C1: for each of the range shapes, Contains on the range a constructor
\* returned (when it is valid) is true exactly of the documented set:
\* (a..b) a < x < b, [a..b] a <= x <= b, (a..b] a < x <= b, [a..b) a <= x < b,
\* (a..+inf) x > a, [a..+inf) x >= a, (-inf..b) x < b, (-inf..b] x <= b,
\* All every x, Singleton(v) exactly v.
C1_ContainsAgreesWithShape ==
    \A x \in ProbeValues :
        /\ (last.op = "OpenE" /\ ~out.invalid) =>
              (Contains(out, x) <=> (last.a < x /\ x < last.b))
        /\ (last.op = "ClosedE" /\ ~out.invalid) =>
              (Contains(out, x) <=> (last.a <= x /\ x <= last.b))
        /\ (last.op = "OpenClosedE" /\ ~out.invalid) =>
              (Contains(out, x) <=> (last.a < x /\ x <= last.b))
        /\ (last.op = "ClosedOpenE" /\ ~out.invalid) =>
              (Contains(out, x) <=> (last.a <= x /\ x < last.b))
        /\ last.op = "GreaterThan" => (Contains(out, x) <=> x > last.a)
        /\ last.op = "AtLeast" => (Contains(out, x) <=> x >= last.a)
        /\ last.op = "LessThan" => (Contains(out, x) <=> x < last.b)
        /\ last.op = "AtMost" => (Contains(out, x) <=> x <= last.b)
        /\ last.op = "All" => Contains(out, x)
        /\ last.op = "Singleton" => (Contains(out, x) <=> x = last.a)

\* A closed range with distinct endpoints contains both of them and not the
\* value after its upper endpoint.
C1_Witness ==
    /\ last.op = "ClosedE"
    /\ ~out.invalid
    /\ last.a < last.b
    /\ Contains(out, last.a)
    /\ Contains(out, last.b)
    /\ ~Contains(out, last.b + 1)

\* C2: Compare is a total order on cuts: reflexive, antisymmetric in sign,
\* transitive; BelowAll is below every other cut and AboveAll above every
\* other cut; value-bearing cuts are ordered by endpoint first and at equal
\* endpoints BelowValue(v) < AboveValue(v); Compare is 0 exactly for two cuts
\* of the same variant and (when value-bearing) the same endpoint.
C2_CompareTotalOrder ==
    \A a, b \in StateCuts :
        /\ Compare(a, a) = 0
        /\ Compare(a, b) \in {0 - 1, 0, 1}
        /\ Compare(a, b) = 0 - Compare(b, a)
        /\ \A c \in StateCuts :
              /\ (Compare(a, b) <= 0 /\ Compare(b, c) <= 0) => Compare(a, c) <= 0
              /\ (Compare(a, b) < 0 /\ Compare(b, c) <= 0) => Compare(a, c) < 0
              /\ (Compare(a, b) <= 0 /\ Compare(b, c) < 0) => Compare(a, c) < 0
        /\ (a.cutType = BelowAll /\ b.cutType # BelowAll) => Compare(a, b) < 0
        /\ (a.cutType = AboveAll /\ b.cutType # AboveAll) => Compare(a, b) > 0
        /\ (ValueBearing(a) /\ ValueBearing(b) /\ a.endpoint < b.endpoint) =>
              Compare(a, b) < 0
        /\ (a.cutType = BelowValue /\ b.cutType = AboveValue
                /\ a.endpoint = b.endpoint) => Compare(a, b) < 0
        /\ (Compare(a, b) = 0 <=> SameCut(a, b))
        /\ (CutEqual(a, b) <=> SameCut(a, b))

\* The state holds both unbounded cuts, the two cuts of one endpoint and a
\* cut of another endpoint.
C2_Witness ==
    /\ {NewBelowAll, NewAboveAll} \subseteq StateCuts
    /\ \E v, w \in Values :
          /\ v # w
          /\ {NewBelowValue(v), NewAboveValue(v)} \subseteq StateCuts
          /\ \E c \in StateCuts : ValueBearing(c) /\ c.endpoint = w

\* C3: every range the client has obtained, by constructors and by
\* Intersection, Gap and Span applied to earlier results (invalid ones
\* included), that is not invalid has lower cut <= upper cut, a lower cut
\* that is not AboveAll and an upper cut that is not BelowAll.
C3_ValidRangesWellFormed ==
    \A x \in {out, prev} : ~IsInvalid(x) => WellFormed(x)

\* A valid range was obtained from a gap or a span with an invalid operand.
C3_Witness ==
    /\ last.op \in {"GapE", "SpanE"}
    /\ last.x.invalid \/ last.y.invalid
    /\ ~IsInvalid(out)
    /\ WellFormed(out)

\* C4: OpenE(a,b) returns an invalid range and an error iff a >= b; ClosedE,
\* ClosedOpenE and OpenClosedE do iff a > b; otherwise the constructor
\* returns a valid range and no error: [a..a] is the singleton, [a..a) and
\* (a..a] are valid empty ranges.
C4_ConstructionValidity ==
    /\ last.op = "OpenE" =>
          /\ (out.invalid /\ err # ErrNil) <=> last.a >= last.b
          /\ (~out.invalid /\ err = ErrNil) <=> last.a < last.b
    /\ last.op \in {"ClosedE", "ClosedOpenE", "OpenClosedE"} =>
          /\ (out.invalid /\ err # ErrNil) <=> last.a > last.b
          /\ (~out.invalid /\ err = ErrNil) <=> last.a <= last.b
    /\ (last.op = "ClosedE" /\ last.a = last.b) =>
          /\ Equal(out, Singleton(last.a))
          /\ \A x \in ProbeValues : Contains(out, x) <=> x = last.a
    /\ (last.op \in {"ClosedOpenE", "OpenClosedE"} /\ last.a = last.b) =>
          /\ IsEmpty(out)
          /\ \A x \in ProbeValues : ~Contains(out, x)

\* OpenE was called with equal endpoints and failed.
C4_Witness ==
    /\ last.op = "OpenE"
    /\ last.a = last.b
    /\ out.invalid
    /\ err = ErrInvalidRange

\* C5: for valid ranges x and y, x.IntersectionE(y) returns a valid range
\* and no error iff x.IsConnected(y); when they are not connected it returns
\* an invalid range with the disconnected-ranges error, and Intersection
\* returns the invalid range.
C5_IntersectionExistsIffConnected ==
    (last.op = "IntersectionE" /\ ValidOperands) =>
        /\ (~out.invalid /\ err = ErrNil) <=> IsConnected(last.x, last.y)
        /\ ~IsConnected(last.x, last.y) =>
              /\ out.invalid
              /\ err = ErrDisconnected
              /\ IsInvalid(Intersection(last.x, last.y))

\* The intersection of two valid ranges that are not connected was taken.
C5_Witness ==
    /\ last.op = "IntersectionE"
    /\ ValidOperands
    /\ ~IsConnected(last.x, last.y)
    /\ out.invalid
    /\ err = ErrDisconnected

\* C6: for valid connected ranges x and y, i = x.Intersection(y) is enclosed
\* by x and by y, encloses every valid range that both enclose, and contains
\* exactly the values that both contain.
C6_IntersectionIsMaximalEnclosed ==
    (last.op = "IntersectionE" /\ ValidOperands /\ IsConnected(last.x, last.y)) =>
        /\ ~out.invalid
        /\ Encloses(last.x, out)
        /\ Encloses(last.y, out)
        /\ \A t \in ValidRanges :
              (Encloses(last.x, t) /\ Encloses(last.y, t)) => Encloses(out, t)
        /\ \A v \in ProbeValues :
              Contains(out, v) <=> (Contains(last.x, v) /\ Contains(last.y, v))

\* Two ranges that neither enclose one another met in an empty range, and two
\* others overlapped in a range that contains a value.
C6_Witness ==
    /\ last.op = "IntersectionE"
    /\ ValidOperands
    /\ IsConnected(last.x, last.y)
    /\ ~Encloses(last.x, last.y)
    /\ ~Encloses(last.y, last.x)
    /\ IsEmpty(out)
    /\ ~out.invalid

\* C7: for valid ranges x and y, x.SpanE(y) returns no error and a valid
\* range that encloses both and is enclosed by every valid range enclosing
\* both.
C7_SpanIsMinimalEnclosing ==
    (last.op = "SpanE" /\ ValidOperands) =>
        /\ err = ErrNil
        /\ ~out.invalid
        /\ WellFormed(out)
        /\ Encloses(out, last.x)
        /\ Encloses(out, last.y)
        /\ \A t \in ValidRanges :
              (Encloses(t, last.x) /\ Encloses(t, last.y)) => Encloses(t, out)

\* The span of two valid ranges that are not connected was taken, and it is
\* neither of them.
C7_Witness ==
    /\ last.op = "SpanE"
    /\ ValidOperands
    /\ ~IsConnected(last.x, last.y)
    /\ ~Equal(out, last.x)
    /\ ~Equal(out, last.y)
    /\ err = ErrNil

\* C8: for valid ranges x and y, x.GapE(y) returns a valid range and no
\* error iff x and y are not connected or x.Intersection(y) is an empty
\* range; otherwise it returns an invalid range and an error.
C8_GapExistsIffNoNonemptyIntersection ==
    (last.op = "GapE" /\ ValidOperands) =>
        LET exists == \/ ~IsConnected(last.x, last.y)
                      \/ IsEmpty(Intersection(last.x, last.y))
        IN  /\ (~out.invalid /\ err = ErrNil) <=> exists
            /\ ~exists => (out.invalid /\ err # ErrNil)

\* C9: for valid ranges x and y that are not connected, g = x.Gap(y) is
\* valid, its lower cut is the upper cut of the range that lies first and
\* its upper cut the lower cut of the other, and every value is contained in
\* x.Span(y) iff it is contained in exactly one of x, g and y.
C9_GapOfDisconnectedRanges ==
    (last.op = "GapE" /\ ValidOperands /\ ~IsConnected(last.x, last.y)) =>
        LET xFirst == Compare(last.x.upperBound, last.y.lowerBound) < 0
            first == IF xFirst THEN last.x ELSE last.y
            second == IF xFirst THEN last.y ELSE last.x
        IN  /\ ~out.invalid
            /\ err = ErrNil
            /\ out = Gap(last.x, last.y)
            /\ CutEqual(out.lowerBound, first.upperBound)
            /\ CutEqual(out.upperBound, second.lowerBound)
            /\ \A v \in ProbeValues :
                  Contains(Span(last.x, last.y), v) <=>
                      Cardinality({z \in {<<1, last.x>>, <<2, out>>, <<3, last.y>>} :
                                      Contains(z[2], v)}) = 1

\* The gap of two valid ranges that are not connected was taken with the
\* receiver lying second, and the gap contains a value.
C9_Witness ==
    /\ last.op = "GapE"
    /\ ValidOperands
    /\ ~IsConnected(last.x, last.y)
    /\ Compare(last.y.upperBound, last.x.lowerBound) < 0
    /\ ~out.invalid
    /\ \E v \in Values : Contains(out, v)

\* C10: for valid ranges x and y, x.GapE(y) and y.GapE(x) either both return
\* an error and an invalid range, or both return no error and Equal ranges.
C10_GapCommutative ==
    (last.op = "GapE" /\ ValidOperands) =>
        LET other == GapE(last.y, last.x)
        IN  \/ /\ err # ErrNil
               /\ out.invalid
               /\ other.err # ErrNil
               /\ other.range.invalid
            \/ /\ err = ErrNil
               /\ other.err = ErrNil
               /\ Equal(out, other.range)

----------------------------------------------------------------------------
(* C11..C20 *)

ValidPair == ~out.invalid /\ ~prev.invalid

\* C11: over valid ranges Encloses is reflexive, antisymmetric with respect
\* to Equal and transitive, and All encloses every valid range and is the
\* only range (up to Equal) that encloses All.
C11_EnclosesPartialOrder ==
    ValidPair =>
        /\ Encloses(out, out)
        /\ (Encloses(out, prev) /\ Encloses(prev, out)) => Equal(out, prev)
        /\ \A t \in ValidRanges :
              (Encloses(out, prev) /\ Encloses(prev, t)) => Encloses(out, t)
        /\ Encloses(All, out)
        /\ Encloses(out, All) => Equal(out, All)

\* The last range strictly encloses the one before it, which strictly
\* encloses a third one.
C11_Witness ==
    /\ ValidPair
    /\ Encloses(out, prev)
    /\ ~Equal(out, prev)
    /\ \E t \in ValidRanges : Encloses(prev, t) /\ ~Equal(prev, t)

\* C12: for valid ranges a and b and every value v, a.Encloses(b) and
\* b.Contains(v) imply a.Contains(v).  The converse fails: [1..1] contains
\* every integer that (0..2) contains and does not enclose it, and [1..2]
\* does not enclose the empty range (0..0].
C12_EnclosesImpliesContains ==
    ValidPair =>
        /\ \A v \in ProbeValues :
              (Encloses(out, prev) /\ Contains(prev, v)) => Contains(out, v)
        /\ (out = Closed(1, 1) /\ prev = Open(0, 2)) =>
              /\ ~Encloses(out, prev)
              /\ \A v \in ProbeValues : Contains(prev, v) => Contains(out, v)
        /\ (out = Closed(1, 2) /\ prev = OpenClosed(0, 0)) =>
              /\ ~Encloses(out, prev)
              /\ \A v \in ProbeValues : ~Contains(prev, v)

\* The range before the last encloses the last one, which contains a value;
\* the last one contains every value of the one before it and does not
\* enclose it.
C12_Witness ==
    /\ ValidPair
    /\ Encloses(prev, out)
    /\ \E v \in ProbeValues : Contains(out, v) /\ Contains(prev, v)
    /\ \A v \in ProbeValues : Contains(prev, v) => Contains(out, v)
    /\ ~Encloses(out, prev)

\* C13: over valid ranges IsConnected is reflexive and symmetric; two ranges
\* of which one ends at the cut where the other starts are connected, and
\* two ranges of which one ends at a cut below the cut where the other
\* starts are not.  (It is not transitive: see the witness.)
C13_IsConnectedReflexiveSymmetric ==
    ValidPair =>
        /\ IsConnected(out, out)
        /\ IsConnected(out, prev) <=> IsConnected(prev, out)
        /\ CutEqual(out.upperBound, prev.lowerBound) => IsConnected(out, prev)
        /\ Compare(out.upperBound, prev.lowerBound) < 0 => ~IsConnected(out, prev)
        /\ (out = ClosedOpen(0, 1) /\ prev = ClosedOpen(1, 2)) => IsConnected(out, prev)
        /\ (out = Closed(0, 1) /\ prev = Open(1, 2)) => IsConnected(out, prev)
        /\ (out = ClosedOpen(0, 1) /\ prev = ClosedOpen(2, 2)) => ~IsConnected(out, prev)

\* Three valid ranges a, b, c with a connected to b, b connected to c and a
\* not connected to c: the operands of a span and the span itself.
C13_Witness ==
    /\ last.op = "SpanE"
    /\ ValidOperands
    /\ ~out.invalid
    /\ IsConnected(last.x, out)
    /\ IsConnected(out, last.y)
    /\ ~IsConnected(last.x, last.y)

\* C14: for valid connected ranges x and y, x.Intersection(y) and
\* y.Intersection(x) are valid and Equal; for all valid ranges x and y,
\* connected or not, x.Span(y) and y.Span(x) are valid and Equal.
C14_IntersectionSpanCommutative ==
    /\ (last.op = "IntersectionE" /\ ValidOperands /\ IsConnected(last.x, last.y)) =>
          /\ ~out.invalid
          /\ ~IsInvalid(Intersection(last.y, last.x))
          /\ Equal(out, Intersection(last.y, last.x))
    /\ (last.op = "SpanE" /\ ValidOperands) =>
          /\ ~out.invalid
          /\ ~IsInvalid(Span(last.y, last.x))
          /\ Equal(out, Span(last.y, last.x))

\* Two overlapping ranges, neither enclosing the other, were intersected and
\* the result is not empty.
C14_Witness ==
    /\ last.op = "IntersectionE"
    /\ ValidOperands
    /\ IsConnected(last.x, last.y)
    /\ ~Encloses(last.x, last.y)
    /\ ~Encloses(last.y, last.x)
    /\ ~out.invalid
    /\ ~IsEmpty(out)

\* C15: for valid ranges a, b, c, a.Span(b).Span(c) is Equal to
\* a.Span(b.Span(c)), and a.Intersection(b).Intersection(c) and
\* a.Intersection(b.Intersection(c)) are both invalid or both valid and
\* Equal (an intermediate result may be the invalid range).
C15_IntersectionSpanAssociative ==
    /\ (last.op = "SpanE" /\ ValidOperands) =>
          \A c \in ValidRanges :
              LET lhs == Span(out, c)
                  rhs == Span(last.x, Span(last.y, c))
              IN  ~lhs.invalid /\ ~rhs.invalid /\ Equal(lhs, rhs)
    /\ (last.op = "IntersectionE" /\ ValidOperands) =>
          \A c \in ValidRanges :
              LET lhs == Intersection(out, c)
                  rhs == Intersection(last.x, Intersection(last.y, c))
              IN  \/ lhs.invalid /\ rhs.invalid
                  \/ ~lhs.invalid /\ ~rhs.invalid /\ Equal(lhs, rhs)

\* a.Intersection(b) is invalid while b.Intersection(c) is valid for some c,
\* so the two sides fail at different steps.
C15_Witness ==
    /\ last.op = "IntersectionE"
    /\ ValidOperands
    /\ out.invalid
    /\ \E c \in ValidRanges :
          /\ ~IsInvalid(Intersection(last.y, c))
          /\ IsInvalid(Intersection(last.x, Intersection(last.y, c)))
          /\ IsInvalid(Intersection(out, c))

\* C16: for valid ranges x and y with y.Encloses(x), x.Intersection(y) is x
\* itself and y.Intersection(x) is Equal to x, and x.Span(y) and y.Span(x)
\* are Equal to y; in particular x.Intersection(x), x.Span(x) and
\* x.Intersection(All) are Equal to x.
C16_AbsorptionByEnclosure ==
    /\ (last.op = "IntersectionE" /\ ValidOperands /\ Encloses(last.y, last.x)) =>
          /\ out = last.x
          /\ Equal(out, last.x)
          /\ ~IsInvalid(Intersection(last.y, last.x))
          /\ Equal(Intersection(last.y, last.x), last.x)
    /\ (last.op = "SpanE" /\ ValidOperands /\ Encloses(last.y, last.x)) =>
          /\ ~out.invalid
          /\ Equal(out, last.y)
          /\ ~IsInvalid(Span(last.y, last.x))
          /\ Equal(Span(last.y, last.x), last.y)
    /\ (last.op \in {"IntersectionE", "SpanE"} /\ ValidOperands) =>
          /\ Equal(Intersection(last.x, last.x), last.x)
          /\ Equal(Span(last.x, last.x), last.x)
          /\ Equal(Intersection(last.x, All), last.x)
          /\ Equal(Intersection(All, last.x), last.x)
          /\ ~IsInvalid(Intersection(last.x, All))

\* A range was intersected with a different range that encloses it.
C16_Witness ==
    /\ last.op = "IntersectionE"
    /\ ValidOperands
    /\ Encloses(last.y, last.x)
    /\ ~Equal(last.x, last.y)
    /\ out = last.x

\* C17: for valid ranges x and y, every value contained in x or in y is
\* contained in x.Span(y), and when x.IsConnected(y) the span contains
\* exactly the values contained in x or in y.  (When they are not connected
\* the span may contain a value of neither: see the witness.)
C17_SpanIsUnionWhenConnected ==
    (last.op = "SpanE" /\ ValidOperands) =>
        \A v \in ProbeValues :
            /\ (Contains(last.x, v) \/ Contains(last.y, v)) => Contains(out, v)
            /\ IsConnected(last.x, last.y) =>
                  (Contains(out, v) <=> (Contains(last.x, v) \/ Contains(last.y, v)))

\* The span of two ranges that are not connected contains a value that
\* neither contains.
C17_Witness ==
    /\ last.op = "SpanE"
    /\ ValidOperands
    /\ ~IsConnected(last.x, last.y)
    /\ \E v \in ProbeValues :
          Contains(out, v) /\ ~Contains(last.x, v) /\ ~Contains(last.y, v)

\* Two ranges have the same bounds: on each side both are unbounded, or both
\* are bounded with the same endpoint and the same bound type.
SameBounds(x, y) ==
    /\ HasLowerBound(x) = HasLowerBound(y)
    /\ LowerBoundType(x) = LowerBoundType(y)
    /\ HasLowerBound(x) => LowerEndpoint(x) = LowerEndpoint(y)
    /\ HasUpperBound(x) = HasUpperBound(y)
    /\ UpperBoundType(x) = UpperBoundType(y)
    /\ HasUpperBound(x) => UpperEndpoint(x) = UpperEndpoint(y)

SameValues(x, y) == \A v \in ProbeValues : Contains(x, v) <=> Contains(y, v)

\* C18: over valid ranges Equal is an equivalence relation, holds iff both
\* lower cuts and both upper cuts compare equal, that is iff the two ranges
\* have the same endpoints and bound types on each side, and implies that
\* they contain the same values.  The converse fails: over integers (0..2)
\* and [1..1] contain the same values and are not Equal, and the empty
\* ranges [1..1), (1..1] and (2..2] are pairwise not Equal.
C18_EqualIsStructural ==
    ValidPair =>
        /\ Equal(out, out)
        /\ Equal(out, prev) <=> Equal(prev, out)
        /\ \A t \in ValidRanges :
              (Equal(out, prev) /\ Equal(prev, t)) => Equal(out, t)
        /\ Equal(out, prev) <=>
              (/\ CutEqual(out.lowerBound, prev.lowerBound)
               /\ CutEqual(out.upperBound, prev.upperBound))
        /\ Equal(out, prev) <=> SameBounds(out, prev)
        /\ Equal(out, prev) => SameValues(out, prev)
        /\ (out = Open(0, 2) /\ prev = Closed(1, 1)) =>
              SameValues(out, prev) /\ ~Equal(out, prev)
        /\ ({out, prev} \subseteq {ClosedOpen(1, 1), OpenClosed(1, 1), OpenClosed(2, 2)}
                /\ out # prev) => ~Equal(out, prev)

\* Two valid ranges contain the same values, one of them at least, and are
\* not Equal.
C18_Witness ==
    /\ ValidPair
    /\ SameValues(out, prev)
    /\ \E v \in ProbeValues : Contains(out, v)
    /\ ~Equal(out, prev)
    /\ ~SameBounds(out, prev)

\* C19: a valid range is empty iff it is Equal to ClosedOpen(v,v) or to
\* OpenClosed(v,v) for some v; an empty range contains no value; Singleton(v),
\* All and the ranges unbounded on one side are not empty.  The converse
\* fails over integers: (0..1) contains no value and is not empty.
C19_IsEmptyCharacterised ==
    ~out.invalid =>
        /\ IsEmpty(out) <=>
              \E v \in Values : \/ Equal(out, ClosedOpen(v, v))
                                \/ Equal(out, OpenClosed(v, v))
        /\ IsEmpty(out) => \A v \in ProbeValues : ~Contains(out, v)
        /\ last.op \in {"Singleton", "All", "LessThan", "AtMost", "GreaterThan",
                        "AtLeast"} => ~IsEmpty(out)
        /\ (~HasLowerBound(out) \/ ~HasUpperBound(out)) => ~IsEmpty(out)
        /\ out = Open(0, 1) =>
              /\ ~IsEmpty(out)
              /\ \A v \in ProbeValues : ~Contains(out, v)

\* The last range is empty; the one before it contains no value and is not
\* empty.
C19_Witness ==
    /\ ValidPair
    /\ IsEmpty(out)
    /\ \A v \in ProbeValues : ~Contains(out, v)
    /\ ~IsEmpty(prev)
    /\ \A v \in ProbeValues : ~Contains(prev, v)

\* C20: no range returned by the API (by a constructor, by Invalid or by
\* Intersection, Gap or Span) is both invalid and empty.
C20_InvalidIsNotEmpty ==
    ~(IsInvalid(out) /\ IsEmpty(out))

----------------------------------------------------------------------------
(* C21..C29 *)

\* The call just made is one of the error-returning variants that has a
\* plain twin, and its range operands (if it takes any) are valid.
EVariantCall ==
    \/ last.op \in {"OpenE", "ClosedE", "ClosedOpenE", "OpenClosedE", "NewE"}
    \/ /\ last.op \in {"IntersectionE", "GapE", "SpanE"}
       /\ ValidOperands

\* What the plain twin of the call just made returns on the same arguments.
PlainResult ==
    CASE last.op = "OpenE" -> Open(last.a, last.b)
      [] last.op = "ClosedE" -> Closed(last.a, last.b)
      [] last.op = "ClosedOpenE" -> ClosedOpen(last.a, last.b)
      [] last.op = "OpenClosedE" -> OpenClosed(last.a, last.b)
      [] last.op = "NewE" -> New(last.a, last.lt, last.b, last.ut)
      [] last.op = "IntersectionE" -> Intersection(last.x, last.y)
      [] last.op = "GapE" -> Gap(last.x, last.y)
      [] last.op = "SpanE" -> Span(last.x, last.y)
      [] OTHER -> Invalid

\* C21: for every pair of a plain and an error-returning variant and all
\* arguments with valid range operands, the E variant returns a non-nil
\* error iff the range it returns is invalid, and the plain variant returns
\* an invalid range exactly when the E variant returns an error and
\* otherwise a range Equal to the E variant's result.
C21_PlainAndEVariantsAgree ==
    EVariantCall =>
        /\ err # ErrNil <=> IsInvalid(out)
        /\ IsInvalid(PlainResult) <=> err # ErrNil
        /\ err = ErrNil => Equal(PlainResult, out)

\* IntersectionE of two valid disconnected ranges returned an error and
\* Intersection on the same operands is invalid.
C21_Witness ==
    /\ last.op = "IntersectionE"
    /\ ValidOperands
    /\ err # ErrNil
    /\ IsInvalid(out)
    /\ IsInvalid(PlainResult)

\* The call just made is a constructor that takes a lower endpoint last.a of
\* bound type last.lt.
BuiltWithLower ==
    last.op \in {"OpenE", "ClosedE", "ClosedOpenE", "OpenClosedE",
                 "GreaterThan", "AtLeast", "Singleton"}

\* The call just made is a constructor that takes an upper endpoint last.b of
\* bound type last.ut.
BuiltWithUpper ==
    last.op \in {"OpenE", "ClosedE", "ClosedOpenE", "OpenClosedE",
                 "LessThan", "AtMost", "Singleton"}

\* C22: for every valid range, LowerEndpointE returns ErrRangeSideUnbounded
\* iff HasLowerBound is false and LowerBoundTypeE returns (Unbounded,
\* ErrUnboundedCut) iff HasLowerBound is false, and symmetrically for the
\* upper side; on a bounded side they return the constructor's endpoint and
\* OPEN or CLOSED with a nil error; the plain accessors return the same
\* value (the zero value and Unbounded on an unbounded side).
C22_AccessorsFailOnUnboundedSides ==
    ~out.invalid =>
        /\ LowerEndpointE(out).err = ErrRangeSideUnbounded <=> ~HasLowerBound(out)
        /\ LowerBoundTypeE(out) = Val(Unbounded, ErrUnboundedCut)
              <=> ~HasLowerBound(out)
        /\ UpperEndpointE(out).err = ErrRangeSideUnbounded <=> ~HasUpperBound(out)
        /\ UpperBoundTypeE(out) = Val(Unbounded, ErrUnboundedCut)
              <=> ~HasUpperBound(out)
        /\ HasLowerBound(out) =>
              /\ LowerEndpointE(out).err = ErrNil
              /\ LowerBoundTypeE(out).err = ErrNil
              /\ LowerBoundTypeE(out).value \in {OPEN, CLOSED}
        /\ HasUpperBound(out) =>
              /\ UpperEndpointE(out).err = ErrNil
              /\ UpperBoundTypeE(out).err = ErrNil
              /\ UpperBoundTypeE(out).value \in {OPEN, CLOSED}
        /\ BuiltWithLower =>
              /\ LowerEndpointE(out) = Val(last.a, ErrNil)
              /\ LowerBoundTypeE(out) = Val(last.lt, ErrNil)
        /\ BuiltWithUpper =>
              /\ UpperEndpointE(out) = Val(last.b, ErrNil)
              /\ UpperBoundTypeE(out) = Val(last.ut, ErrNil)
        /\ LowerEndpoint(out) = LowerEndpointE(out).value
        /\ LowerBoundType(out) = LowerBoundTypeE(out).value
        /\ UpperEndpoint(out) = UpperEndpointE(out).value
        /\ UpperBoundType(out) = UpperBoundTypeE(out).value
        /\ ~HasLowerBound(out) =>
              LowerEndpoint(out) = Zero /\ LowerBoundType(out) = Unbounded
        /\ ~HasUpperBound(out) =>
              UpperEndpoint(out) = Zero /\ UpperBoundType(out) = Unbounded

\* AtMost(b) with b not the zero value was called: the lower accessors fail
\* and the upper ones return b and CLOSED.
C22_Witness ==
    /\ last.op = "AtMost"
    /\ last.b # Zero
    /\ ~out.invalid
    /\ ~HasLowerBound(out)
    /\ LowerEndpointE(out) = Val(Zero, ErrRangeSideUnbounded)
    /\ LowerBoundTypeE(out) = Val(Unbounded, ErrUnboundedCut)
    /\ UpperEndpointE(out) = Val(last.b, ErrNil)
    /\ UpperBoundTypeE(out) = Val(CLOSED, ErrNil)

\* The named constructor of the shape given by two bound types.
NamedConstructor(lower, lowerType, upper, upperType) ==
    CASE lowerType = OPEN /\ upperType = OPEN -> Open(lower, upper)
      [] lowerType = OPEN /\ upperType = CLOSED -> OpenClosed(lower, upper)
      [] lowerType = CLOSED /\ upperType = CLOSED -> Closed(lower, upper)
      [] lowerType = CLOSED /\ upperType = OPEN -> ClosedOpen(lower, upper)
      [] OTHER -> Invalid

\* Both ranges are invalid, or both are valid and Equal.
EqualOrBothInvalid(x, y) ==
    \/ IsInvalid(x) /\ IsInvalid(y)
    \/ ~IsInvalid(x) /\ ~IsInvalid(y) /\ Equal(x, y)

\* C23: for all endpoints and bound types in {OPEN, CLOSED}, New(a, lt, b,
\* ut) is Equal to the named constructor of that shape or both are invalid;
\* every valid range bounded on both sides is Equal to New of its own
\* endpoints and bound types; UpTo(v, OPEN/CLOSED) is Equal to
\* LessThan(v)/AtMost(v) and DownTo(v, OPEN/CLOSED) to
\* GreaterThan(v)/AtLeast(v).
C23_RoundTrip ==
    /\ (last.op = "NewE" /\ last.lt \in {OPEN, CLOSED} /\ last.ut \in {OPEN, CLOSED})
          => EqualOrBothInvalid(out, NamedConstructor(last.a, last.lt,
                                                      last.b, last.ut))
    /\ (~out.invalid /\ HasLowerBound(out) /\ HasUpperBound(out)) =>
          LET again == New(LowerEndpoint(out), LowerBoundType(out),
                           UpperEndpoint(out), UpperBoundType(out))
          IN  ~IsInvalid(again) /\ Equal(again, out)
    /\ (last.op = "UpTo" /\ last.ut = OPEN) =>
          ~out.invalid /\ Equal(out, LessThan(last.b))
    /\ (last.op = "UpTo" /\ last.ut = CLOSED) =>
          ~out.invalid /\ Equal(out, AtMost(last.b))
    /\ (last.op = "DownTo" /\ last.lt = OPEN) =>
          ~out.invalid /\ Equal(out, GreaterThan(last.a))
    /\ (last.op = "DownTo" /\ last.lt = CLOSED) =>
          ~out.invalid /\ Equal(out, AtLeast(last.a))

\* NewE(a, CLOSED, b, OPEN) with a < b returned a valid range, Equal to
\* ClosedOpen(a, b) and to New of its own accessors.
C23_Witness ==
    /\ last.op = "NewE"
    /\ last.lt = CLOSED
    /\ last.ut = OPEN
    /\ last.a < last.b
    /\ ~out.invalid
    /\ Equal(out, ClosedOpen(last.a, last.b))
    /\ Equal(out, New(LowerEndpoint(out), LowerBoundType(out),
                      UpperEndpoint(out), UpperBoundType(out)))

\* C24: every constructor that takes a BoundType argument (UpTo, DownTo,
\* NewE) returns an invalid range together with ErrWrongBoundType whenever a
\* supplied bound type is neither OPEN nor CLOSED, and never constructs a
\* valid range from such an argument.
C24_WrongBoundTypeRejected ==
    /\ (last.op = "UpTo" /\ last.ut \notin {OPEN, CLOSED}) =>
          IsInvalid(out) /\ err = ErrWrongBoundType
    /\ (last.op = "DownTo" /\ last.lt \notin {OPEN, CLOSED}) =>
          IsInvalid(out) /\ err = ErrWrongBoundType
    /\ (last.op = "NewE" /\ (last.lt \notin {OPEN, CLOSED}
                             \/ last.ut \notin {OPEN, CLOSED})) =>
          IsInvalid(out) /\ err = ErrWrongBoundType

\* The part of C24 about UpTo and DownTo alone.
C24_UpToDownToReject ==
    /\ (last.op = "UpTo" /\ last.ut \notin {OPEN, CLOSED}) =>
          IsInvalid(out) /\ err = ErrWrongBoundType
    /\ (last.op = "DownTo" /\ last.lt \notin {OPEN, CLOSED}) =>
          IsInvalid(out) /\ err = ErrWrongBoundType

\* NewE(0, Unbounded, 1, Unbounded) returned the valid range [0..1] and no
\* error.
C24_NewEAcceptsUnbounded ==
    /\ last.op = "NewE"
    /\ last.a = 0 /\ last.b = 1
    /\ last.lt = Unbounded /\ last.ut = Unbounded
    /\ err = ErrNil
    /\ out = Closed(0, 1)
    /\ ~IsInvalid(out)

\* C25: for all valid ranges r and s, r.Encloses(s) implies
\* r.IsConnected(s); and there are valid ranges that are connected while
\* neither encloses the other.
C25_EnclosesImpliesConnected ==
    ValidPair =>
        /\ Encloses(out, prev) => IsConnected(out, prev)
        /\ Encloses(prev, out) => IsConnected(prev, out)
        /\ (out = ClosedOpen(0, 2) /\ prev = Closed(1, 2)) =>
              /\ IsConnected(out, prev)
              /\ ~Encloses(out, prev)
              /\ ~Encloses(prev, out)

\* The last two ranges are valid, different and connected, neither encloses
\* the other, and they share a value.
C25_Witness ==
    /\ ValidPair
    /\ IsConnected(out, prev)
    /\ ~Encloses(out, prev)
    /\ ~Encloses(prev, out)
    /\ \E v \in Values : Contains(out, v) /\ Contains(prev, v)

\* An earlier range that strictly encloses a nonempty later one.
C25_EnclosingReached ==
    /\ ValidPair
    /\ Encloses(prev, out)
    /\ ~Encloses(out, prev)
    /\ ~IsEmpty(out)
    /\ IsConnected(prev, out)

\* How the claim says the lower side of a valid range renders: "(-inf"
\* when unbounded (inf being the infinity sign), "[v" when closed, "(v" when
\* open.
LowerRendering(x) ==
    IF ~HasLowerBound(x) THEN <<40, 45, 8734>>
    ELSE IF LowerBoundType(x) = CLOSED THEN <<91>> \o FormatValue(LowerEndpoint(x))
    ELSE <<40>> \o FormatValue(LowerEndpoint(x))

\* How the claim says the upper side of a valid range renders: "+inf)" when
\* unbounded, "v)" when open, "v]" when closed.
UpperRendering(x) ==
    IF ~HasUpperBound(x) THEN <<43, 8734, 41>>
    ELSE IF UpperBoundType(x) = OPEN THEN FormatValue(UpperEndpoint(x)) \o <<41>>
    ELSE FormatValue(UpperEndpoint(x)) \o <<93>>

C27_FinalConstructionNeverFails ==
    ValidOperands =>
        /\ (last.op = "IntersectionE" /\ err # ErrNil) => err = ErrDisconnected
        /\ (last.op = "GapE" /\ err # ErrNil) => err = ErrNonemptyIntersection

\* The part of C27 about IntersectionE alone.
C27_IntersectionEOnlyDisconnectedError ==
    (ValidOperands /\ last.op = "IntersectionE" /\ err # ErrNil) =>
        err = ErrDisconnected /\ ~IsConnected(last.x, last.y)

\* ClosedOpen(1,1).GapE(Closed(1,2)) returned the 'invalid range' error.
C27_GapEConstructionFailed ==
    /\ last.op = "GapE"
    /\ last.x = ClosedOpen(1, 1)
    /\ last.y = Closed(1, 2)
    /\ err = ErrInvalidRange
    /\ IsInvalid(out)

\* C28: if either operand of Intersection, Gap or Span is an invalid range,
\* the result is invalid and the corresponding E variant returns a non-nil
\* error.
C28_InvalidityIsAbsorbing ==
    (/\ last.op \in {"IntersectionE", "GapE", "SpanE"}
     /\ IsInvalid(last.x) \/ IsInvalid(last.y)) =>
        /\ IsInvalid(out)
        /\ err # ErrNil

\* The part of C28 that the code keeps: an intersection with an invalid
\* operand is invalid (though IntersectionE may return it with a nil error).
C28_IntersectionOfInvalidIsInvalid ==
    (/\ last.op = "IntersectionE"
     /\ IsInvalid(last.x) \/ IsInvalid(last.y)) => IsInvalid(out)

\* Invalid().SpanE(Closed(1,2)) returned the valid range (-inf..2] and no
\* error.
C28_SpanOfInvalidIsValid ==
    /\ last.op = "SpanE"
    /\ last.x = Invalid
    /\ last.y = Closed(1, 2)
    /\ err = ErrNil
    /\ ~IsInvalid(out)
    /\ out = AtMost(2)

\* Invalid().GapE(Closed(1,2)) returned the valid range (-inf..1) and no
\* error.
C28_GapOfInvalidIsValid ==
    /\ last.op = "GapE"
    /\ last.x = Invalid
    /\ last.y = Closed(1, 2)
    /\ err = ErrNil
    /\ ~IsInvalid(out)
    /\ out = LessThan(1)

\* Invalid().IntersectionE(LessThan(1)) returned the invalid range with a
\* nil error.
C28_IntersectionOfInvalidNoError ==
    /\ last.op = "IntersectionE"
    /\ last.x = Invalid
    /\ last.y = LessThan(1)
    /\ IsInvalid(out)
    /\ err = ErrNil

\* C29: for every invalid range returned by the API, HasLowerBound and
\* HasUpperBound are both false, LowerEndpointE and UpperEndpointE return
\* ErrRangeSideUnbounded, LowerBoundTypeE and UpperBoundTypeE return
\* ErrUnboundedCut, and Contains is false of every value; and for every
\* range, valid or invalid, HasUpperBound is true iff UpperEndpointE returns
\* a nil error and HasLowerBound is true iff LowerEndpointE returns a nil
\* error.
C29_InvalidReportsNoBounds ==
    /\ IsInvalid(out) =>
          /\ ~HasLowerBound(out)
          /\ ~HasUpperBound(out)
          /\ LowerEndpointE(out).err = ErrRangeSideUnbounded
          /\ UpperEndpointE(out).err = ErrRangeSideUnbounded
          /\ LowerBoundTypeE(out).err = ErrUnboundedCut
          /\ UpperBoundTypeE(out).err = ErrUnboundedCut
          /\ \A v \in ProbeValues : ~Contains(out, v)
    /\ HasUpperBound(out) <=> UpperEndpointE(out).err = ErrNil
    /\ HasLowerBound(out) <=> LowerEndpointE(out).err = ErrNil

\* The part of C29 that the code keeps: everything but HasUpperBound.
C29_InvalidExceptHasUpperBound ==
    /\ IsInvalid(out) =>
          /\ ~HasLowerBound(out)
          /\ LowerEndpointE(out).err = ErrRangeSideUnbounded
          /\ UpperEndpointE(out).err = ErrRangeSideUnbounded
          /\ LowerBoundTypeE(out).err = ErrUnboundedCut
          /\ UpperBoundTypeE(out).err = ErrUnboundedCut
          /\ \A v \in ProbeValues : ~Contains(out, v)
    /\ HasLowerBound(out) <=> LowerEndpointE(out).err = ErrNil
    /\ ~IsInvalid(out) => (HasUpperBound(out) <=> UpperEndpointE(out).err = ErrNil)

\* A failed OpenE(2, 1) returned an invalid range whose HasUpperBound is
\* true while UpperEndpointE returns ErrRangeSideUnbounded.
C29_InvalidHasUpperBound ==
    /\ last.op = "OpenE"
    /\ last.a = 2 /\ last.b = 1
    /\ IsInvalid(out)
    /\ HasUpperBound(out)
    /\ UpperEndpointE(out).err = ErrRangeSideUnbounded

====
